---- MODULE Spec2Model ----
(***************************************************************************)
(* Model of MortgageModel.py: the Mortgage cost breakdown (Mortgage.cost,  *)
(* Mortgage.pmi, Mortgage.isValid) and the MortgageModel search            *)
(* (optimizeTotalHomeValue, getMortgage, loadRestrictions, loadFinancing). *)
(*                                                                         *)
(* Numbers.  The program computes with Python ints, Python floats and     *)
(* numpy scalars.  Whether a candidate home value is accepted hinges on   *)
(* the comparison initial_cost <= savings, where initial_cost equals       *)
(* savings up to the last bit, so the rounding of every operation is part  *)
(* of the program's behaviour, and so is the type of every operand (see    *)
(* Numbers below).  The model implements the int arithmetic exactly and    *)
(* the IEEE-754 binary64 arithmetic with round-to-nearest-even, on top of  *)
(* natural numbers held as little-endian sequences of base-2^15 limbs      *)
(* (TLC's own integers are 32 bits wide).                                  *)
(***************************************************************************)
EXTENDS Integers, Sequences, FiniteSets, TLC

(***************************************************************************)
(* Natural numbers of arbitrary size: little-endian limbs, base 2^15, no   *)
(* leading (high) zero limbs; zero is the empty sequence.                  *)
(***************************************************************************)
LimbBits == 15

MantBits == 53

RECURSIVE Pow2(_)
Pow2(n) == IF n = 0 THEN 1 ELSE 2 * Pow2(n - 1)

Base == Pow2(LimbBits)

\* The recursive routines are functions: a function's argument is evaluated
\* before its body, which keeps the evaluation of a nested computation
\* shallow.
Limbs == Seq(Nat)

BNorm[a \in Limbs] ==
  IF a = <<>> THEN <<>>
  ELSE IF a[Len(a)] = 0 THEN BNorm[SubSeq(a, 1, Len(a) - 1)]
  ELSE a

BFromInt[n \in Nat] == IF n = 0 THEN <<>> ELSE <<n % Base>> \o BFromInt[n \div Base]

BitLenInt[n \in Nat] == IF n = 0 THEN 0 ELSE 1 + BitLenInt[n \div 2]

BBitLen(a) == IF a = <<>> THEN 0 ELSE LimbBits * (Len(a) - 1) + BitLenInt[a[Len(a)]]

BLimb(a, i) == IF i <= Len(a) THEN a[i] ELSE 0

BCmpAt[a \in Limbs, b \in Limbs, i \in Nat] ==
  IF i = 0 THEN 0
  ELSE IF a[i] > b[i] THEN 1
  ELSE IF a[i] < b[i] THEN -1
  ELSE BCmpAt[a, b, i - 1]

\* -1, 0, 1 as a < b, a = b, a > b
BCmp(a, b) ==
  IF Len(a) > Len(b) THEN 1
  ELSE IF Len(a) < Len(b) THEN -1
  ELSE BCmpAt[a, b, Len(a)]

\* acc holds the limbs below i, c the carry into limb i
BAddAt[a \in Limbs, b \in Limbs, i \in Nat, c \in Nat, acc \in Limbs] ==
  IF i > Len(a) /\ i > Len(b)
  THEN (IF c = 0 THEN acc ELSE Append(acc, c))
  ELSE BAddAt[a, b, i + 1, (BLimb(a, i) + BLimb(b, i) + c) \div Base,
              Append(acc, (BLimb(a, i) + BLimb(b, i) + c) % Base)]

BAdd(a, b) == BAddAt[a, b, 1, 0, <<>>]

BSubAt[a \in Limbs, b \in Limbs, i \in Nat, c \in Nat, acc \in Limbs] ==
  IF i > Len(a) THEN acc
  ELSE IF a[i] - BLimb(b, i) - c < 0
       THEN BSubAt[a, b, i + 1, 1, Append(acc, a[i] - BLimb(b, i) - c + Base)]
       ELSE BSubAt[a, b, i + 1, 0, Append(acc, a[i] - BLimb(b, i) - c)]

\* a - b for a >= b
BSub(a, b) == BNorm[BSubAt[a, b, 1, 0, <<>>]]

BMulLimbAt[a \in Limbs, d \in Nat, i \in Nat, c \in Nat, acc \in Limbs] ==
  IF i > Len(a)
  THEN (IF c = 0 THEN acc ELSE Append(acc, c))
  ELSE BMulLimbAt[a, d, i + 1, (a[i] * d + c) \div Base, Append(acc, (a[i] * d + c) % Base)]

BMulLimb(a, d) == IF d = 0 THEN <<>> ELSE BMulLimbAt[a, d, 1, 0, <<>>]

BShlLimbs(a, n) == IF a = <<>> THEN <<>> ELSE [i \in 1..n |-> 0] \o a

BMulAt[a \in Limbs, b \in Limbs, i \in Nat, acc \in Limbs] ==
  IF i > Len(b) THEN acc
  ELSE BMulAt[a, b, i + 1, BAdd(acc, BShlLimbs(BMulLimb(a, b[i]), i - 1))]

BMul(a, b) == IF a = <<>> \/ b = <<>> THEN <<>> ELSE BMulAt[a, b, 1, <<>>]

\* a * 2^n
BShl(a, n) == BShlLimbs(BMulLimb(a, Pow2(n % LimbBits)), n \div LimbBits)

\* acc holds the quotient limbs above i (low limb first), r the remainder so far
BDivLimbAt[a \in Limbs, d \in Nat, i \in Nat, r \in Nat, acc \in Limbs] ==
  IF i = 0 THEN acc
  ELSE BDivLimbAt[a, d, i - 1, (r * Base + a[i]) % d, <<(r * Base + a[i]) \div d>> \o acc]

\* floor(a / d) for a limb-sized d
BDivLimb(a, d) == BNorm[BDivLimbAt[a, d, Len(a), 0, <<>>]]

\* floor(a / 2^n)
BShr(a, n) ==
  IF n \div LimbBits >= Len(a) THEN <<>>
  ELSE BDivLimb(SubSeq(a, n \div LimbBits + 1, Len(a)), Pow2(n % LimbBits))

BIsOdd(a) == a # <<>> /\ a[1] % 2 = 1

(***************************************************************************)
(* Long division, one base-2^15 quotient digit at a time.  The divisor b   *)
(* is scaled so that its top limb is at least Base/2; the digit estimated  *)
(* from the two top limbs of the running remainder is then at most two too *)
(* large and is decremented until it fits.                                 *)
(*   q < 0:  the limb a[i] is brought down onto the remainder r and the    *)
(*           digit is estimated;                                           *)
(*   q >= 0: q is the candidate digit for the remainder r.                 *)
(* acc holds the quotient limbs above i.  The result is <<quotient,        *)
(* whether a remainder is left>>.                                          *)
(***************************************************************************)
BEstimate(r, b) ==
  IF (BLimb(r, Len(b) + 1) * Base + BLimb(r, Len(b))) \div b[Len(b)] > Base - 1
  THEN Base - 1
  ELSE (BLimb(r, Len(b) + 1) * Base + BLimb(r, Len(b))) \div b[Len(b)]

BDivAt[a \in Limbs, b \in Limbs, i \in Nat, r \in Limbs, q \in Int, acc \in Limbs] ==
  IF q < 0
  THEN IF i = 0 THEN <<BNorm[acc], r # <<>>>>
       ELSE BDivAt[a, b, i, BNorm[<<a[i]>> \o r], BEstimate(BNorm[<<a[i]>> \o r], b), acc]
  ELSE IF BCmp(BMulLimb(b, q), r) = 1 THEN BDivAt[a, b, i, r, q - 1, acc]
  ELSE BDivAt[a, b, i - 1, BSub(r, BMulLimb(b, q)), -1, <<q>> \o acc]

BDivFrom(a, b) == BDivAt[a, b, Len(a), <<>>, -1, <<>>]

\* <<floor(a / b), whether a remainder is left>> for b # 0
BDivSticky(a, b) ==
  BDivFrom(BShl(a, LimbBits - BitLenInt[b[Len(b)]]), BShl(b, LimbBits - BitLenInt[b[Len(b)]]))

(***************************************************************************)
(* Numbers.  A number of the program is a Python int, a Python float or a  *)
(* numpy scalar (numpy.arange yields numpy.int64 or numpy.float64 values,  *)
(* numpy.pmt a numpy.float64).  It is a record [t, s, m, e]:               *)
(*   t   "int", "float", "int64" or "float64";                             *)
(*   an int or int64 is (-1)^s * m with m of any length and e = 0 (0 has   *)
(*   s = 0), so an int is exact whatever its size;                         *)
(*   a float or float64 is a binary64 value: (-1)^s * m * 2^e with m of    *)
(*   exactly MantBits bits (fewer for a subnormal, whose e is MinExp), or, *)
(*   with m = <<>>, a zero of sign s (e = 0), an infinity of sign s        *)
(*   (e = 1) or NaN (e = 2).                                               *)
(* The type decides what the program does with a number: "x is 0" holds    *)
(* for the int 0 only, a Python division by zero raises where a numpy      *)
(* division gives inf or nan, the sum of two ints is an int, and a Python  *)
(* float is compared with a Python int exactly where numpy compares the    *)
(* int's binary64 value.                                                   *)
(***************************************************************************)
Types == {"int", "float", "int64", "float64"}

\* The arithmetic operations are functions for the same reason as the
\* recursive routines above: their operands are computed before they are.
Nums == [t : Types, s : {0, 1}, m : Limbs, e : Int]

\* the exponent of a subnormal binary64 value
MinExp == 0 - 1074

\* binary64 values are below 2^MaxExp
MaxExp == 1024

Zero(t, s) == [t |-> t, s |-> s, m |-> <<>>, e |-> 0]

Inf(t, s) == [t |-> t, s |-> s, m |-> <<>>, e |-> 1]

NaN(t) == [t |-> t, s |-> 0, m |-> <<>>, e |-> 2]

IsZero(a) == a.m = <<>> /\ a.e = 0

IsInf(a) == a.m = <<>> /\ a.e = 1

IsNaN(a) == a.m = <<>> /\ a.e = 2

IsIntT(a) == a.t \in {"int", "int64"}

IsNp(a) == a.t \in {"int64", "float64"}

\* the type of the result of an operation on a and b, float or int
FloatT(a, b) == IF IsNp(a) \/ IsNp(b) THEN "float64" ELSE "float"

IntT(a, b) == IF IsNp(a) \/ IsNp(b) THEN "int64" ELSE "int"

\* the binary64 value (-1)^s * q * 2^e, q of at most MantBits bits
FFinite(t, s, q, e) ==
  IF q = <<>> THEN Zero(t, s)
  ELSE IF BBitLen(q) + e > MaxExp THEN Inf(t, s)
  ELSE [t |-> t, s |-> s, m |-> q, e |-> e]

\* q of at most MantBits bits, or 2^MantBits after a round-up carried all
\* the way
FPack(t, s, q, e) ==
  IF BBitLen(q) > MantBits
  THEN FFinite(t, s, BShr(q, 1), e + 1)
  ELSE FFinite(t, s, q, e)

\* c holds the bits that are kept and, last, the first bit that is cut off;
\* inexact tells whether anything nonzero lies below that bit.  Round to
\* nearest, ties to even: up when the cut bit is set and either something
\* lies below it or the kept significand is odd.
FHalfEven(t, s, c, inexact, e) ==
  FPack(t, s, BShr(BAdd(c, IF BIsOdd(c) /\ (inexact \/ c[1] % 4 = 3) THEN <<1>> ELSE <<>>), 1), e)

FRoundCut(t, s, n, e, sticky, sh, c) ==
  FHalfEven(t, s, c, sticky \/ BShl(c, sh - 1) # n, e + sh)

\* sh is the number of low bits of n that are cut off
FRoundBy(t, s, n, e, sticky, sh) ==
  IF sh <= 0
  THEN FFinite(t, s, BShl(n, -sh), e + sh)
  ELSE FRoundCut(t, s, n, e, sticky, sh, BShr(n, sh - 1))

\* the bits to cut off n * 2^e: what n has above a significand, more when
\* the value is subnormal
FShift(n, e) ==
  IF BBitLen(n) - MantBits >= MinExp - e THEN BBitLen(n) - MantBits ELSE MinExp - e

\* (-1)^s * n * 2^e, plus a nonzero amount below one unit of n when sticky,
\* rounded to nearest, ties to even
FRound(t, s, n, e, sticky) ==
  IF n = <<>> THEN Zero(t, s) ELSE FRoundBy(t, s, n, e, sticky, FShift(n, e))

\* the int literal n, and float(n)
PyInt(n) ==
  [t |-> "int", s |-> IF n < 0 THEN 1 ELSE 0, m |-> BFromInt[IF n < 0 THEN -n ELSE n], e |-> 0]

PyFloat(n) == FRound("float", IF n < 0 THEN 1 ELSE 0, BFromInt[IF n < 0 THEN -n ELSE n], 0, FALSE)

\* an int operand of a float operation is converted to binary64 first
ToDouble(a) == IF IsIntT(a) THEN FRound(a.t, a.s, a.m, 0, FALSE) ELSE a

\* the binary64 value of the other sign
FlipSign(a) == IF IsNaN(a) THEN a ELSE [a EXCEPT !.s = 1 - a.s]

\* unary minus (an int has no negative zero)
FNeg(a) == IF IsIntT(a) /\ a.m = <<>> THEN a ELSE FlipSign(a)

FAbs(a) == [a EXCEPT !.s = 0]

\* -1, 0, 1 as |a| < |b|, |a| = |b|, |a| > |b|, exactly; neither is NaN
FCmpMag(a, b) ==
  IF IsInf(a) THEN (IF IsInf(b) THEN 0 ELSE 1)
  ELSE IF IsInf(b) THEN -1
  ELSE IF a.m = <<>> THEN (IF b.m = <<>> THEN 0 ELSE -1)
  ELSE IF b.m = <<>> THEN 1
  ELSE IF a.e = b.e THEN BCmp(a.m, b.m)
  ELSE IF BBitLen(a.m) + a.e > BBitLen(b.m) + b.e THEN 1
  ELSE IF BBitLen(a.m) + a.e < BBitLen(b.m) + b.e THEN -1
  ELSE BCmp(BShl(a.m, IF a.e > b.e THEN a.e - b.e ELSE 0),
            BShl(b.m, IF b.e > a.e THEN b.e - a.e ELSE 0))

FCmpSigned(a, b) ==
  IF IsZero(a) /\ IsZero(b) THEN 0
  ELSE IF a.s # b.s THEN (IF a.s = 1 THEN -1 ELSE 1)
  ELSE IF a.s = 0 THEN FCmpMag(a, b)
  ELSE 0 - FCmpMag(a, b)

\* Python compares an int with a float exactly; numpy compares a float64
\* with the binary64 value of an int
FCmp(a, b) ==
  IF (IsNp(a) \/ IsNp(b)) /\ ~(IsIntT(a) /\ IsIntT(b))
  THEN FCmpSigned(ToDouble(a), ToDouble(b))
  ELSE FCmpSigned(a, b)

\* every comparison with NaN is false
Ordered(a, b) == ~IsNaN(a) /\ ~IsNaN(b)

FLe(a, b) == Ordered(a, b) /\ FCmp(a, b) <= 0

FLt(a, b) == Ordered(a, b) /\ FCmp(a, b) < 0

FGe(a, b) == Ordered(a, b) /\ FCmp(a, b) >= 0

FGt(a, b) == Ordered(a, b) /\ FCmp(a, b) > 0

FEq(a, b) == Ordered(a, b) /\ FCmp(a, b) = 0

\* the sum of two ints
ISum(t, sa, x, sb, y) ==
  IF sa = sb THEN [t |-> t, s |-> sa, m |-> BAdd(x, y), e |-> 0]
  ELSE IF BCmp(x, y) = 0 THEN Zero(t, 0)
  ELSE IF BCmp(x, y) > 0 THEN [t |-> t, s |-> sa, m |-> BSub(x, y), e |-> 0]
  ELSE [t |-> t, s |-> sb, m |-> BSub(y, x), e |-> 0]

\* x * 2^e of sign sa plus y * 2^e of sign sb; a sum that cancels is +0
FAddAligned(t, sa, x, sb, y, e) ==
  IF sa # sb /\ BCmp(x, y) = 0 THEN Zero(t, 0)
  ELSE FRound(t, IF sa = sb \/ BCmp(x, y) >= 0 THEN sa ELSE sb,
              IF sa = sb THEN BAdd(x, y)
              ELSE IF BCmp(x, y) >= 0 THEN BSub(x, y)
              ELSE BSub(y, x),
              e, FALSE)

\* the sum of two binary64 values
FAddFloat(t, a, b) ==
  IF IsNaN(a) \/ IsNaN(b) THEN NaN(t)
  ELSE IF IsInf(a) THEN (IF IsInf(b) /\ a.s # b.s THEN NaN(t) ELSE Inf(t, a.s))
  ELSE IF IsInf(b) THEN Inf(t, b.s)
  ELSE IF a.m = <<>> /\ b.m = <<>> THEN Zero(t, IF a.s = 1 /\ b.s = 1 THEN 1 ELSE 0)
  ELSE IF a.m = <<>> THEN [b EXCEPT !.t = t]
  ELSE IF b.m = <<>> THEN [a EXCEPT !.t = t]
  ELSE FAddAligned(t, a.s, BShl(a.m, IF a.e > b.e THEN a.e - b.e ELSE 0),
                   b.s, BShl(b.m, IF b.e > a.e THEN b.e - a.e ELSE 0),
                   IF a.e < b.e THEN a.e ELSE b.e)

\* a + b
FAdd[a \in Nums, b \in Nums] ==
  IF IsIntT(a) /\ IsIntT(b) THEN ISum(IntT(a, b), a.s, a.m, b.s, b.m)
  ELSE FAddFloat(FloatT(a, b), ToDouble(a), ToDouble(b))

\* a - b
FSub[a \in Nums, b \in Nums] ==
  IF IsIntT(a) /\ IsIntT(b) THEN ISum(IntT(a, b), a.s, a.m, 1 - b.s, b.m)
  ELSE FAddFloat(FloatT(a, b), ToDouble(a), FlipSign(ToDouble(b)))

FMulFloat(t, a, b) ==
  IF IsNaN(a) \/ IsNaN(b) THEN NaN(t)
  ELSE IF IsInf(a) \/ IsInf(b)
  THEN (IF IsZero(a) \/ IsZero(b) THEN NaN(t) ELSE Inf(t, (a.s + b.s) % 2))
  ELSE FRound(t, (a.s + b.s) % 2, BMul(a.m, b.m), a.e + b.e, FALSE)

\* a * b
FMul[a \in Nums, b \in Nums] ==
  IF IsIntT(a) /\ IsIntT(b)
  THEN [t |-> IntT(a, b), s |-> IF a.m = <<>> \/ b.m = <<>> THEN 0 ELSE (a.s + b.s) % 2,
        m |-> BMul(a.m, b.m), e |-> 0]
  ELSE FMulFloat(FloatT(a, b), ToDouble(a), ToDouble(b))

FQuot(t, s, qs, e) == FRound(t, s, qs[1], e, qs[2])

\* the bits by which x is shifted up for the quotient x / y to have three
\* bits more than a significand
QuotShift(x, y) ==
  MantBits + 3 + (IF BBitLen(y) > BBitLen(x) THEN BBitLen(y) - BBitLen(x) ELSE 0)

\* (-1)^s * (x * 2^ex) / (y * 2^ey) for x, y # 0, rounded once; a
\* remainder makes the rest of the expansion nonzero
QuotRound(t, s, x, ex, y, ey) ==
  FQuot(t, s, BDivSticky(BShl(x, QuotShift(x, y)), y), ex - ey - QuotShift(x, y))

\* the quotient of two binary64 values, a zero divisor included (IEEE 754)
FDivFloat(t, a, b) ==
  IF IsNaN(a) \/ IsNaN(b) THEN NaN(t)
  ELSE IF IsInf(a) THEN (IF IsInf(b) THEN NaN(t) ELSE Inf(t, (a.s + b.s) % 2))
  ELSE IF IsInf(b) THEN Zero(t, (a.s + b.s) % 2)
  ELSE IF b.m = <<>> THEN (IF a.m = <<>> THEN NaN(t) ELSE Inf(t, (a.s + b.s) % 2))
  ELSE IF a.m = <<>> THEN Zero(t, (a.s + b.s) % 2)
  ELSE QuotRound(t, (a.s + b.s) % 2, a.m, a.e, b.m, b.e)

\* a / b (true division): the quotient of two Python ints is rounded once,
\* from the exact ints; every other quotient is that of the binary64 values.
\* Where Python raises ZeroDivisionError is decided by DivRaises.
FDiv[a \in Nums, b \in Nums] ==
  IF a.t = "int" /\ b.t = "int" /\ a.m # <<>> /\ b.m # <<>>
  THEN QuotRound("float", (a.s + b.s) % 2, a.m, 0, b.m, 0)
  ELSE FDivFloat(FloatT(a, b), ToDouble(a), ToDouble(b))

\* the float literal n/d (n.d in the source), which Python reads as the
\* binary64 value nearest to it: the quotient is taken DecBits bits below
\* the point, more than a significand for every literal of the program
DecBits == 75

Dec(n, d) == FQuot("float", 0, BDivSticky(BShl(BFromInt[n], DecBits), BFromInt[d]), 0 - DecBits)

(***************************************************************************)
(* x ** n for a float64 x and an integer n >= 0, as numpy computes         *)
(* (1 + rate) ** nper with the C library's pow: the correctly rounded      *)
(* power.  The power is built by squaring on significands kept to 8 limbs  *)
(* (120 bits), far more than the 53 bits it is rounded to at the end.      *)
(***************************************************************************)
PowLimbs == 8

PTrunc(p) ==
  IF Len(p.m) <= PowLimbs THEN p
  ELSE [m |-> SubSeq(p.m, Len(p.m) - PowLimbs + 1, Len(p.m)),
        e |-> p.e + LimbBits * (Len(p.m) - PowLimbs)]

PMul(p, q) == PTrunc([m |-> BMul(p.m, q.m), e |-> p.e + q.e])

PSquare(p) == PMul(p, p)

RECURSIVE PPow(_, _)
PPow(p, n) ==
  IF n = 1 THEN p
  ELSE IF n % 2 = 1 THEN PMul(PSquare(PPow(p, n \div 2)), p)
  ELSE PSquare(PPow(p, n \div 2))

FPowRound(t, s, p, inexact) == FRound(t, s, p.m, p.e, inexact)

FPow[x \in Nums, n \in Nat] ==
  IF n = 0 THEN FRound(x.t, 0, <<1>>, 0, FALSE)
  ELSE IF IsNaN(x) THEN x
  ELSE IF x.m = <<>> THEN [x EXCEPT !.s = IF n % 2 = 1 THEN x.s ELSE 0]
  ELSE FPowRound(x.t, IF n % 2 = 1 THEN x.s ELSE 0, PPow([m |-> x.m, e |-> x.e], n), n > 1)

(***************************************************************************)
(* Python values.  A dict is a function from its keys (strings) to values; *)
(* its values are numbers, except mortgage_term, a count of months.  A     *)
(* raised exception is a record with an "error" field.                     *)
(***************************************************************************)
EmptyDict == <<>>

Has(d, key) == key \in DOMAIN d

With(d, key, v) == [x \in DOMAIN d \cup {key} |-> IF x = key THEN v ELSE d[x]]

\* if key not in d: d[key] = v
SetDefault(d, key, v) == IF Has(d, key) THEN d ELSE With(d, key, v)

ValueError(msg) == [error |-> "ValueError", msg |-> msg]

KeyError(key) == [error |-> "KeyError", msg |-> key]

\* what a / b raises for a zero b
ZeroDivisionError(a, b) ==
  [error |-> "ZeroDivisionError",
   msg |-> IF IsIntT(a) /\ IsIntT(b) THEN "division by zero" ELSE "float division by zero"]

\* a / b raises: Python's division by a zero does, numpy's gives inf or nan
DivRaises(a, b) == ~IsNp(a) /\ ~IsNp(b) /\ IsZero(b)

IsError(v) == Has(v, "error")

\* "x is 0", "x is 1": the int itself, not a float or a numpy scalar of
\* that value
IsInt0(x) == x = PyInt(0)

IsInt1(x) == x = PyInt(1)

\* Mortgage.__init__: the defaults are written into the dict that was
\* passed, and the object keeps that dict
Mortgage(home_value, financing, asset) ==
  [home_value |-> home_value,
   financing |-> financing,
   asset |-> SetDefault(SetDefault(SetDefault(asset, "current_value", home_value),
                                   "tax_rate", Dec(1, 100)),
                        "hoa", PyInt(0))]

\* Mortgage.isValid
isValid(mortgage) == FGt(mortgage.home_value, PyInt(0))

\* pmi with the rates of the 10% and the 5% tier exchanged
pmi_swapped(mortgage_size, percent_down) ==
  IF FGe(percent_down, Dec(2, 10)) THEN PyInt(0)
  ELSE IF FGe(percent_down, Dec(15, 100)) THEN FMul[mortgage_size, Dec(44, 10000)]
  ELSE IF FGe(percent_down, Dec(1, 10)) THEN FMul[mortgage_size, Dec(76, 10000)]
  ELSE IF FGe(percent_down, Dec(5, 100)) THEN FMul[mortgage_size, Dec(59, 10000)]
  ELSE FMul[mortgage_size, Dec(98, 10000)]

\* Mortgage.pmi; the literals .2, .15, .1, .05 and the four rates
pmi(mortgage_size, percent_down) ==
  IF FGe(percent_down, Dec(2, 10)) THEN PyInt(0)
  ELSE IF FGe(percent_down, Dec(15, 100)) THEN FMul[mortgage_size, Dec(44, 10000)]
  ELSE IF FGe(percent_down, Dec(1, 10)) THEN FMul[mortgage_size, Dec(59, 10000)]
  ELSE IF FGe(percent_down, Dec(5, 100)) THEN FMul[mortgage_size, Dec(76, 10000)]
  ELSE FMul[mortgage_size, Dec(98, 10000)]

\* numpy.asarray(x): a numpy value of the same kind
NpArray(x) == [x EXCEPT !.t = IF IsIntT(x) THEN "int64" ELSE "float64"]

\* x stored into a float64 array
AsFloat64(x) == [ToDouble(x) EXCEPT !.t = "float64"]

\* numpy.pmt(rate, nper, pv) with fv = 0 and payments at the period's end
\* (when = 0):  temp = (1 + rate)**nper;
\* fact = nper if rate == 0 else (1 + rate*when)*(temp - 1)/rate;
\* the payment is -(fv + pv*temp)/fact
pmt_temp(rate, nper, pv, temp) ==
  FNeg(FDiv[FAdd[NpArray(PyInt(0)), FMul[pv, temp]],
            IF FEq(rate, PyInt(0)) THEN AsFloat64(PyInt(nper))
            ELSE FDiv[FMul[FAdd[PyInt(1), FMul[rate, NpArray(PyInt(0))]],
                           FSub[temp, PyInt(1)]],
                      rate]])

pmt(rate, nper, pv) ==
  pmt_temp(NpArray(rate), nper, NpArray(pv), FPow[FAdd[PyInt(1), NpArray(rate)], nper])

\* lines 54-66: the dict returned, from the locals of lines 42-52
cost_dict(financing, asset, initial_cost, percent_down, mortgage_size, mortgage_payment, pmi_payment, tax_payment, insurance_cost) ==
  [initial_cost |-> initial_cost,
   closing_cost |-> FSub[initial_cost, financing.down_payment],
   down_payment_cost |-> financing.down_payment,
   percent_down |-> percent_down,
   mortgage_size |-> mortgage_size,
   mortgage_payment |-> mortgage_payment,
   pmi_payment |-> pmi_payment,
   tax_payment |-> tax_payment,
   insurance_payment |-> insurance_cost,
   hoa |-> asset.hoa,
   monthly_payment |->
     FAdd[FAdd[FAdd[FAdd[mortgage_payment, pmi_payment], tax_payment],
               insurance_cost], asset.hoa]]

\* lines 49-52 and the dict, given asset_value, mortgage_size and
\* percent_down
cost_locals(financing, asset, asset_value, mortgage_size, percent_down) ==
  IF ~Has(financing, "interest_rate") THEN KeyError("interest_rate")
  ELSE cost_dict(financing, asset,
                 FAdd[FMul[mortgage_size, financing.closing_cost], financing.down_payment],
                 percent_down,
                 mortgage_size,
                 FAbs(pmt(FDiv[financing.interest_rate, PyInt(12)], 12 * 30, mortgage_size)),
                 FDiv[pmi(mortgage_size, percent_down), PyInt(12)],
                 FDiv[FMul[asset.current_value, asset.tax_rate], PyInt(12)],
                 FDiv[FMul[Dec(35, 10000), asset_value], PyInt(12)])

\* Mortgage.cost: the empty dict when the home value is the int 0 (line 38),
\* else the breakdown, or what the statements of lines 46-50 raise: a
\* KeyError for a key the financing lacks, a ZeroDivisionError for the
\* Python division by an asset value of zero (line 48)
cost(mortgage) ==
  IF IsInt0(mortgage.home_value) THEN EmptyDict
  ELSE IF ~Has(mortgage.financing, "down_payment") THEN KeyError("down_payment")
  ELSE IF ~Has(mortgage.financing, "closing_cost") THEN KeyError("closing_cost")
  ELSE IF DivRaises(mortgage.financing.down_payment, mortgage.asset.current_value)
  THEN ZeroDivisionError(mortgage.financing.down_payment, mortgage.asset.current_value)
  ELSE cost_locals(mortgage.financing, mortgage.asset, mortgage.asset.current_value,
                   FSub[mortgage.asset.current_value, mortgage.financing.down_payment],
                   FDiv[mortgage.financing.down_payment, mortgage.asset.current_value])

\* the default of max_monthly_payment and max_mortgage, the int
\* 999999999999999999
DefaultCap ==
  [t |-> "int", s |-> 0,
   m |-> BAdd(BMul(BFromInt[999999999], BFromInt[1000000000]), BFromInt[999999999]),
   e |-> 0]

\* loadRestrictions without the check of lines 207-208
loadRestrictions_unconstrained(restrictions) ==
  IF ~Has(restrictions, "savings")
  THEN ValueError("'savings' bound must be set in your constraints.")
  ELSE IF FLt(restrictions.savings, PyInt(10000))
  THEN ValueError("Your savings are not high enough. Enter a 'savings' constraint of at least 10000.")
  ELSE SetDefault(SetDefault(SetDefault(SetDefault(restrictions,
                    "max_monthly_payment", DefaultCap),
                    "max_mortgage", DefaultCap),
                    "hoa", PyInt(0)),
                    "tax_rate", Dec(125, 10000))

\* MortgageModel.loadRestrictions: works on a copy, so the caller's dict is
\* never written; the defaulted copy, or the ValueError raised
loadRestrictions(restrictions) ==
  IF ~Has(restrictions, "savings")
  THEN ValueError("'savings' bound must be set in your constraints.")
  ELSE IF FLt(restrictions.savings, PyInt(10000))
  THEN ValueError("Your savings are not high enough. Enter a 'savings' constraint of at least 10000.")
  ELSE IF ~Has(restrictions, "max_monthly_payment") /\ ~Has(restrictions, "max_mortgage")
  THEN ValueError("You did not't provide any constraints. You must a 'max_monthly_payment' or 'max_mortgage'.")
  ELSE SetDefault(SetDefault(SetDefault(SetDefault(restrictions,
                    "max_monthly_payment", DefaultCap),
                    "max_mortgage", DefaultCap),
                    "hoa", PyInt(0)),
                    "tax_rate", Dec(125, 10000))

\* MortgageModel.loadFinancing on self.financing
loadFinancing(self_financing) ==
  IF ~Has(self_financing, "interest_rate")
  THEN ValueError("'interest_rate' value is required in the financing argument.")
  ELSE SetDefault(SetDefault(SetDefault(self_financing,
                    "mortgage_term", 30 * 12),
                    "closing_cost", Dec(5, 100)),
                    "down_payment", PyInt(0))

\* line 185: home_value - (savings - home_value) / (closing_cost - 1)
DownPayment(home_value, savings, closing_cost) ==
  FSub[home_value, FDiv[FSub[savings, home_value], FSub[closing_cost, PyInt(1)]]]

\* lines 188-195 without the guard of line 188
getMortgage_unguarded(financing, home_value, loaded, down_payment) ==
  Mortgage(home_value,
           With(financing, "down_payment", down_payment),
           [current_value |-> home_value,
            tax_rate |-> loaded.tax_rate,
            hoa |-> loaded.hoa])

\* lines 188-195, given the down payment of line 185
getMortgage_down(financing, home_value, loaded, down_payment) ==
  IF FLt(down_payment, PyInt(0))
  THEN Mortgage(PyInt(0), EmptyDict, EmptyDict)
  ELSE Mortgage(home_value,
                With(financing, "down_payment", down_payment),
                [current_value |-> home_value,
                 tax_rate |-> loaded.tax_rate,
                 hoa |-> loaded.hoa])

\* lines 183-195; the Python division of line 185 raises for a closing cost
\* of 1
getMortgage_loaded(financing, home_value, loaded) ==
  IF IsError(financing) THEN financing
  ELSE IF IsError(loaded) THEN loaded
  ELSE IF DivRaises(FSub[loaded.savings, home_value], FSub[financing.closing_cost, PyInt(1)])
  THEN ZeroDivisionError(FSub[loaded.savings, home_value], FSub[financing.closing_cost, PyInt(1)])
  ELSE getMortgage_down(financing, home_value, loaded,
                        DownPayment(home_value, loaded.savings, financing.closing_cost))

\* MortgageModel.getMortgage: the Mortgage, or the exception raised
getMortgage(self_financing, home_value, restrictions) ==
  getMortgage_loaded(loadFinancing(self_financing), home_value,
                     loadRestrictions(restrictions))

(***************************************************************************)
(* The search.  numpy.arange(start, stop, step) has                        *)
(* ceil((stop - start) / step) elements, none when that is not positive.   *)
(* Of three ints the elements are the int64 values start + k * step.       *)
(* Otherwise they are float64 values, filled in as numpy does: element 0   *)
(* is start, element 1 is start + step, and element k >= 2 is              *)
(* start + k * delta for delta = element 1 - element 0.                    *)
(***************************************************************************)
BToInt(a) == BLimb(a, 1) + Base * BLimb(a, 2) + Base * Base * BLimb(a, 3)

\* ceil of a positive finite binary64 value below 2^31
CeilPos(a) ==
  IF a.e >= 0 THEN BToInt(BShl(a.m, a.e))
  ELSE BToInt(BShr(a.m, -a.e)) + (IF BShl(BShr(a.m, -a.e), -a.e) = a.m THEN 0 ELSE 1)

\* the length for the quotient q = (stop - start) / step
ArangeCount(q) == IF q.m = <<>> \/ q.s = 1 THEN 0 ELSE CeilPos(q)

\* len(numpy.arange(start, stop, step))
ArangeLen(start, stop, stp) == ArangeCount(ToDouble(FDiv[FSub[stop, start], stp]))

\* element k >= 2 of a float64 arange whose first two elements are e0, e1
ArangeFill(e0, e1, k) == FAdd[e0, FMul[AsFloat64(PyInt(k)), FSub[e1, e0]]]

\* numpy.arange(start, stop, step)[k]
ArangeAt(start, stop, stp, k) ==
  IF IsIntT(start) /\ IsIntT(stop) /\ IsIntT(stp)
  THEN NpArray(FAdd[start, FMul[PyInt(k), stp]])
  ELSE IF k = 0 THEN AsFloat64(start)
  ELSE IF k = 1 THEN AsFloat64(FAdd[start, stp])
  ELSE ArangeFill(AsFloat64(start), AsFloat64(FAdd[start, stp]), k)

\* len(numpy.arange(0.05, 1.01, 0.001)), the passes of the inner loop
SweepCount == ArangeLen(Dec(5, 100), Dec(101, 100), Dec(1, 1000))

None == [none |-> TRUE]

\* lines 127-131
NoBest ==
  [value |-> PyInt(0),
   mortgage |-> Mortgage(PyInt(0), EmptyDict, EmptyDict),
   cost |-> [monthly_payment |-> PyInt(0)]]

\* lines 144-146 as the three constraints of the buyer
Feasible(c, r) ==
  /\ FLe(c.initial_cost, r.savings)
  /\ FLe(c.monthly_payment, r.max_monthly_payment)
  /\ FLe(c.mortgage_size, r.max_mortgage)

\* lines 144-146 for the cost c of a valid mortgage: the three comparisons
\* with the restrictions, which are the same in every pass of the inner loop
Compared(mortgage, c, r) ==
  IF ~isValid(mortgage) THEN None
  ELSE [low_enough_monthly_payment |-> FLe(c.monthly_payment, r.max_monthly_payment),
        have_enough_funds |-> FLe(c.initial_cost, r.savings),
        is_mortgage_too_big |-> FGt(c.mortgage_size, r.max_mortgage)]

\* the body with "or" for the "and" of line 153 between the monthly payment
\* and the funds
SweepPass_either(st, j, mortgage, c, cmp) ==
  IF ~isValid(mortgage) THEN st
  ELSE IF cmp.is_mortgage_too_big THEN st
  ELSE IF /\ \/ cmp.low_enough_monthly_payment
             \/ cmp.have_enough_funds
             \/ FEq(j, st.best.value) /\ FLt(c.monthly_payment, st.best.cost.monthly_payment)
          /\ FGt(j, st.best.value)
  THEN [best |-> [value |-> j, mortgage |-> mortgage, cost |-> c], found |-> TRUE]
  ELSE st

\* the body with "found_a_match = False" (line 135) moved into the inner
\* loop, onto the path that stores nothing
SweepPass_reset(st, j, mortgage, c, cmp) ==
  IF ~isValid(mortgage) THEN st
  ELSE IF cmp.is_mortgage_too_big THEN st
  ELSE IF /\ \/ cmp.low_enough_monthly_payment
                /\ cmp.have_enough_funds
             \/ FEq(j, st.best.value) /\ FLt(c.monthly_payment, st.best.cost.monthly_payment)
          /\ FGt(j, st.best.value)
  THEN [best |-> [value |-> j, mortgage |-> mortgage, cost |-> c], found |-> TRUE]
  ELSE [best |-> st.best, found |-> FALSE]

(***************************************************************************)
(* One pass of the inner loop's body (lines 138-160) for the candidate j.  *)
(* st = [best, found] is best_value and found_a_match.  getMortgage(j,     *)
(* restrictions) and its cost() do not read the loop index i and are pure, *)
(* so every pass gets the same mortgage, the same cost c and the same      *)
(* outcome cmp of the comparisons of lines 144-146.                        *)
(***************************************************************************)
SweepPass(st, j, mortgage, c, cmp) ==
  IF ~isValid(mortgage) THEN st
  ELSE
    LET low_enough_monthly_payment == cmp.low_enough_monthly_payment
        have_enough_funds == cmp.have_enough_funds
        is_mortgage_too_big == cmp.is_mortgage_too_big
        is_same_value == FEq(j, st.best.value)
        is_lower_monthly_payment ==
          FLt(c.monthly_payment, st.best.cost.monthly_payment)
    IN  IF is_mortgage_too_big THEN st
        ELSE IF /\ \/ low_enough_monthly_payment /\ have_enough_funds
                   \/ is_same_value /\ is_lower_monthly_payment
                /\ FGt(j, st.best.value)
        THEN [best |-> [value |-> j, mortgage |-> mortgage, cost |-> c], found |-> TRUE]
        ELSE st

\* passes of the body in sequence: the first half of them, then the rest on
\* what the first half left (binding the intermediate state through a set
\* makes TLC finish the first half before it starts on the rest)
RECURSIVE Sweep(_, _, _, _, _, _)
Sweep(passes, st, j, mortgage, c, cmp) ==
  IF passes = 0 THEN st
  ELSE IF passes = 1 THEN SweepPass(st, j, mortgage, c, cmp)
  ELSE CHOOSE out \in
         { Sweep(passes - passes \div 2, half, j, mortgage, c, cmp) :
             half \in {Sweep(passes \div 2, st, j, mortgage, c, cmp)} } : TRUE

(***************************************************************************)
(* State.                                                                  *)
(*   op            the call the client makes: "optimize", "getMortgage",   *)
(*                 "Mortgage" (Mortgages built directly, then cost()) or   *)
(*                 "pmi" (Mortgage.pmi at two down-payment percentages)    *)
(*   financing     MortgageModel.financing, or the financing of a Mortgage *)
(*                 built directly                                          *)
(*   restrictions  the caller's restrictions dict; given is its value at   *)
(*                 the call                                                *)
(*   home_value    the home value argument                                 *)
(*   asset         the caller's asset dict, which Mortgage.__init__ writes *)
(*                 to, or Omitted when the call leaves the argument out    *)
(*   default_asset the dict that is the default of the asset parameter     *)
(*                 (line 5): one object, made when the class is defined    *)
(*                 and written to by every call that leaves asset out      *)
(*   calls         Mortgages the client has built directly so far          *)
(*   pmi_args      the arguments of the pmi calls                          *)
(*   pc            "call", then for optimize "loop" (the for-j loop) and   *)
(*                 "after" (line 166); "done" (returned), "costed" (cost() *)
(*                 taken of the result), "raised", "recursion_limit"       *)
(*   loaded, lower_bound, upper_bound, step, best_value, found_a_match, k, *)
(*   n             the locals of the running optimizeTotalHomeValue frame; *)
(*                 the candidate j is element k of the arange, k < n       *)
(*   single        best_value and found_a_match of the same search with    *)
(*                 one pass of the inner loop per candidate                *)
(*   depth         recursive calls made so far                             *)
(*   evals         candidate home values evaluated so far                  *)
(*   result, breakdown, raised, pmi_out   what the calls gave              *)
(***************************************************************************)
VARIABLES op, financing, restrictions, given, home_value, asset, default_asset,
          calls, pmi_args,
          pc, loaded, lower_bound, upper_bound, step, best_value,
          found_a_match, single, k, n, depth, evals,
          result, breakdown, raised, pmi_out

vars == <<op, financing, restrictions, given, home_value, asset, default_asset,
          calls, pmi_args,
          pc, loaded, lower_bound, upper_bound, step, best_value,
          found_a_match, single, k, n, depth, evals,
          result, breakdown, raised, pmi_out>>

inputs == <<op, financing, restrictions, given, home_value, asset, default_asset,
            calls, pmi_args>>

frame == <<loaded, lower_bound, upper_bound, step, best_value, found_a_match,
           single, k, n, depth, evals>>

\* recursive calls after which the model stops following a recursion that
\* does not end (Python raises RecursionError at its own limit)
MaxDepth == 13

\* Mortgages a client builds directly, one after the other
MaxCalls == 2

\* the asset argument left out of a call
Omitted == [omitted |-> TRUE]

IsOmitted(a) == Has(a, "omitted")

(***************************************************************************)
(* Inputs.                                                                 *)
(***************************************************************************)
Financings ==
  { [interest_rate |-> Dec(6, 100)],
    [interest_rate |-> Dec(6, 100), mortgage_term |-> 180],
    [interest_rate |-> Dec(45, 1000), closing_cost |-> Dec(3, 100)],
    [interest_rate |-> Dec(6, 100), closing_cost |-> PyInt(1)],
    [interest_rate |-> Dec(6, 100), closing_cost |-> PyFloat(1)],
    [closing_cost |-> Dec(5, 100)] }

OptimizeFinancings ==
  { [interest_rate |-> Dec(6, 100)],
    [closing_cost |-> Dec(5, 100)] }

ValidRestrictions ==
  { [savings |-> PyInt(50000), max_monthly_payment |-> PyInt(3000)],
    [savings |-> PyInt(10000), max_mortgage |-> PyInt(100000)],
    [savings |-> Dec(1000001, 100), max_mortgage |-> PyInt(100000)],
    [savings |-> PyInt(20000), max_monthly_payment |-> PyInt(1500),
     max_mortgage |-> PyInt(150000), hoa |-> PyInt(100), tax_rate |-> Dec(1, 100)],
    [savings |-> PyInt(10000), max_monthly_payment |-> PyInt(5)],
    [savings |-> PyInt(9999998), max_mortgage |-> PyInt(100000)] }

InvalidRestrictions ==
  { [max_mortgage |-> PyInt(100000)],
    [savings |-> PyInt(5000), max_mortgage |-> PyInt(100000)],
    [savings |-> PyInt(9999), max_monthly_payment |-> PyInt(3000)],
    [savings |-> PyInt(50000)],
    [savings |-> PyInt(50000), hoa |-> PyInt(100)] }

HomeValues ==
  { PyInt(10000), PyInt(50000), PyInt(60000), PyInt(150000),
    PyInt(250000), PyInt(1000001), PyInt(9999999), Dec(1500005, 10) }

\* Mortgage(home_value, financing, asset) built directly
MortgageHomeValues ==
  { PyInt(0), Zero("float", 0), Zero("float", 1), PyInt(-100000), PyInt(150000),
    PyInt(200000) }

\* the home value of a further Mortgage
NextHomeValues == { PyInt(0), PyInt(150000), PyInt(200000) }

MortgageFinancings ==
  { EmptyDict,
    [interest_rate |-> Dec(6, 100), down_payment |-> PyInt(30000),
     closing_cost |-> Dec(5, 100)],
    [interest_rate |-> Dec(45, 1000), down_payment |-> PyInt(0),
     closing_cost |-> Dec(3, 100), mortgage_term |-> 180] }

MortgageAssets ==
  { EmptyDict,
    [current_value |-> PyInt(180000)],
    [current_value |-> PyInt(0)],
    [tax_rate |-> Dec(2, 100), hoa |-> PyInt(50)],
    Omitted }

\* Mortgage.pmi(mortgage_size, percent_down)
MortgageSizes == { PyInt(-100000), PyInt(0), PyInt(100000), PyInt(200000) }

PercentsDown ==
  { Zero("float", 0), Dec(4, 100), Dec(5, 100), Dec(7, 100), Dec(1, 10), Dec(12, 100),
    Dec(15, 100), Dec(18, 100), Dec(2, 10), Dec(25, 100), PyFloat(1) }

\* the defaults of lower_bound, upper_bound and step are the int 0 (line 103)
InitFrame ==
  /\ pc = "call"
  /\ loaded = EmptyDict
  /\ lower_bound = PyInt(0)
  /\ upper_bound = PyInt(0)
  /\ step = PyInt(0)
  /\ best_value = NoBest
  /\ found_a_match = FALSE
  /\ single = [best |-> NoBest, found |-> FALSE]
  /\ k = 0
  /\ n = 0
  /\ depth = 0
  /\ evals = 0
  /\ result = None
  /\ breakdown = None
  /\ raised = None
  /\ pmi_out = None

\* MortgageModel(financing).optimizeTotalHomeValue(restrictions)
InitOptimize ==
  /\ op = "optimize"
  /\ financing \in OptimizeFinancings
  /\ restrictions \in ValidRestrictions \cup InvalidRestrictions
  /\ given = restrictions
  /\ home_value = PyInt(0)
  /\ asset = EmptyDict
  /\ default_asset = EmptyDict
  /\ calls = 0
  /\ pmi_args = None
  /\ InitFrame

\* MortgageModel(financing).getMortgage(home_value, restrictions)
InitGetMortgage ==
  /\ op = "getMortgage"
  /\ financing \in Financings
  /\ restrictions \in ValidRestrictions \cup InvalidRestrictions
  /\ given = restrictions
  /\ home_value \in HomeValues
  /\ asset = EmptyDict
  /\ default_asset = EmptyDict
  /\ calls = 0
  /\ pmi_args = None
  /\ InitFrame

\* Mortgage(home_value, financing, asset), or Mortgage(home_value, financing)
\* in a process that has not built a Mortgage without an asset before
InitMortgage ==
  /\ op = "Mortgage"
  /\ financing \in MortgageFinancings
  /\ restrictions = EmptyDict
  /\ given = restrictions
  /\ home_value \in MortgageHomeValues
  /\ asset \in MortgageAssets
  /\ default_asset = EmptyDict
  /\ calls = 1
  /\ pmi_args = None
  /\ InitFrame

\* pmi(mortgage_size, lo) and pmi(mortgage_size, hi)
InitPmi ==
  /\ op = "pmi"
  /\ financing = EmptyDict
  /\ restrictions = EmptyDict
  /\ given = restrictions
  /\ home_value = PyInt(0)
  /\ asset = EmptyDict
  /\ default_asset = EmptyDict
  /\ calls = 0
  /\ pmi_args \in [mortgage_size : MortgageSizes, lo : PercentsDown, hi : PercentsDown]
  /\ InitFrame

Init == InitOptimize \/ InitGetMortgage \/ InitMortgage \/ InitPmi

(***************************************************************************)
(* optimizeTotalHomeValue.  A recursive call (line 169) passes the         *)
(* defaulted restrictions of the calling frame.                            *)
(***************************************************************************)
FrameRestrictions == IF depth = 0 THEN restrictions ELSE loaded

\* line 117 raises
OptimizeRaise ==
  /\ op = "optimize"
  /\ pc = "call"
  /\ \E r \in {loadRestrictions(FrameRestrictions)} :
       /\ IsError(r)
       /\ raised' = r
  /\ pc' = "raised"
  /\ UNCHANGED <<inputs, frame, result, breakdown, pmi_out>>

\* lines 119-122: "lower_bound is 0" holds for the int 0 of the first call
\* and for the int 0 that best_value["value"] starts as
EnterLower(lb, r) == IF IsInt0(lb) THEN r.savings ELSE lb

EnterUpper(lb, ub) == IF IsInt0(lb) THEN PyInt(9999999) ELSE ub

EnterStep(lb, s) == IF IsInt0(lb) THEN PyInt(100000) ELSE s

\* lines 124-125
ClampStep(s) == IF FLt(s, PyInt(50)) THEN PyInt(1) ELSE s

\* lines 117-133
OptimizeEnter ==
  /\ op = "optimize"
  /\ pc = "call"
  /\ \E r \in {loadRestrictions(FrameRestrictions)} :
       /\ ~IsError(r)
       /\ loaded' = r
       /\ \E lb \in {EnterLower(lower_bound, r)} :
            \E ub \in {EnterUpper(lower_bound, upper_bound)} :
              \E s \in {ClampStep(EnterStep(lower_bound, step))} :
                /\ lower_bound' = lb
                /\ upper_bound' = ub
                /\ step' = s
                /\ n' = ArangeLen(lb, ub, s)
  /\ best_value' = NoBest
  /\ single' = [best |-> NoBest, found |-> single.found]
  /\ k' = 0
  /\ pc' = "loop"
  /\ UNCHANGED <<inputs, found_a_match, depth, evals, result, breakdown,
                 raised, pmi_out>>

\* lines 134-164: one turn of the for-j loop, the whole inner loop included
OuterStep ==
  /\ op = "optimize"
  /\ pc = "loop"
  /\ k < n
  /\ \E j \in {ArangeAt(lower_bound, upper_bound, step, k)} :
       \E mortgage \in {getMortgage(financing, j, loaded)} :
         IF IsError(mortgage)
         THEN /\ raised' = mortgage
              /\ pc' = "raised"
              /\ UNCHANGED <<inputs, frame, result, breakdown, pmi_out>>
         ELSE
           \E c \in {cost(mortgage)} :
            \E cmp \in {Compared(mortgage, c, loaded)} :
             \E st \in {Sweep(SweepCount, [best |-> best_value, found |-> FALSE],
                              j, mortgage, c, cmp)} :
               /\ best_value' = st.best
               /\ found_a_match' = st.found
               /\ single' = Sweep(1, [best |-> single.best, found |-> FALSE],
                                  j, mortgage, c, cmp)
               /\ evals' = evals + 1
               /\ IF st.found
                  THEN /\ k' = k + 1
                       /\ UNCHANGED <<upper_bound, pc>>
                  ELSE /\ upper_bound' = j
                       /\ pc' = "after"
                       /\ UNCHANGED k
               /\ UNCHANGED <<inputs, loaded, lower_bound, step, n, depth,
                              result, breakdown, raised, pmi_out>>

\* the for-j loop runs out of candidates
LoopEnd ==
  /\ op = "optimize"
  /\ pc = "loop"
  /\ k >= n
  /\ pc' = "after"
  /\ UNCHANGED <<inputs, frame, result, breakdown, raised, pmi_out>>

\* lines 166-167: "step is 1" holds for the int 1 of line 125 (a halving
\* gives a float)
Return ==
  /\ op = "optimize"
  /\ pc = "after"
  /\ IsInt1(step)
  /\ result' = best_value.mortgage
  /\ pc' = "done"
  /\ UNCHANGED <<inputs, frame, breakdown, raised, pmi_out>>

\* lines 168-169
Recurse ==
  /\ op = "optimize"
  /\ pc = "after"
  /\ ~IsInt1(step)
  /\ depth < MaxDepth
  /\ lower_bound' = best_value.value
  /\ step' = FDiv[step, PyInt(2)]
  /\ depth' = depth + 1
  /\ pc' = "call"
  /\ UNCHANGED <<inputs, loaded, upper_bound, best_value, found_a_match, single,
                 k, n, evals, result, breakdown, raised, pmi_out>>

RecursionLimit ==
  /\ op = "optimize"
  /\ pc = "after"
  /\ ~IsInt1(step)
  /\ depth >= MaxDepth
  /\ pc' = "recursion_limit"
  /\ UNCHANGED <<inputs, frame, result, breakdown, raised, pmi_out>>

\* MortgageModel.getMortgage called by the client
GetMortgageCall ==
  /\ op = "getMortgage"
  /\ pc = "call"
  /\ \E mortgage \in {getMortgage(financing, home_value, restrictions)} :
       IF IsError(mortgage)
       THEN raised' = mortgage /\ pc' = "raised" /\ UNCHANGED result
       ELSE result' = mortgage /\ pc' = "done" /\ UNCHANGED raised
  /\ UNCHANGED <<inputs, frame, breakdown, pmi_out>>

\* Mortgage(home_value, financing, asset) built by the client: the defaults
\* go into the caller's dict, or into the default dict of the parameter when
\* the call leaves asset out
Construct ==
  /\ op = "Mortgage"
  /\ pc = "call"
  /\ \E mortgage \in {Mortgage(home_value, financing,
                               IF IsOmitted(asset) THEN default_asset ELSE asset)} :
       /\ result' = mortgage
       /\ IF IsOmitted(asset)
          THEN default_asset' = mortgage.asset /\ UNCHANGED asset
          ELSE asset' = mortgage.asset /\ UNCHANGED default_asset
  /\ pc' = "done"
  /\ UNCHANGED <<op, financing, restrictions, given, home_value, calls, pmi_args,
                 frame, breakdown, raised, pmi_out>>

\* the client goes on to build another Mortgage, of another home value, with
\* the same asset argument (the same dict, or none again)
ConstructAgain ==
  /\ op = "Mortgage"
  /\ pc = "done"
  /\ calls < MaxCalls
  /\ home_value' \in NextHomeValues
  /\ calls' = calls + 1
  /\ result' = None
  /\ pc' = "call"
  /\ UNCHANGED <<op, financing, restrictions, given, asset, default_asset, pmi_args,
                 frame, breakdown, raised, pmi_out>>

\* the client takes cost() of the Mortgage it got
CallCost ==
  /\ op \in {"optimize", "getMortgage", "Mortgage"}
  /\ pc = "done"
  /\ \E c \in {cost(result)} :
       IF IsError(c)
       THEN raised' = c /\ pc' = "raised" /\ UNCHANGED breakdown
       ELSE breakdown' = c /\ pc' = "costed" /\ UNCHANGED raised
  /\ UNCHANGED <<inputs, frame, result, pmi_out>>

\* Mortgage.pmi at the two percentages
CallPmi ==
  /\ op = "pmi"
  /\ pc = "call"
  /\ pmi_out' = [lo |-> pmi(pmi_args.mortgage_size, pmi_args.lo),
                 hi |-> pmi(pmi_args.mortgage_size, pmi_args.hi)]
  /\ pc' = "done"
  /\ UNCHANGED <<inputs, frame, result, breakdown, raised>>

Next ==
  \/ OptimizeRaise
  \/ OptimizeEnter
  \/ OuterStep
  \/ LoopEnd
  \/ Return
  \/ Recurse
  \/ RecursionLimit
  \/ GetMortgageCall
  \/ Construct
  \/ ConstructAgain
  \/ CallCost
  \/ CallPmi

Spec == Init /\ [][Next]_vars

(***************************************************************************)
(* Properties.                                                             *)
(***************************************************************************)

\* halvings of the step until it is below 50: 100000 takes 11
RECURSIVE Halvings(_)
Halvings(s) == IF FLt(s, PyInt(50)) THEN 0 ELSE 1 + Halvings(FDiv[s, PyInt(2)])

\* C1: a call of optimizeTotalHomeValue on restrictions that pass validation
\* makes no more recursive calls than the step has halvings from 100000 to
\* below 50, and so runs to its return; also when no candidate is accepted
\* at the first level.
C1_RecursionBounded ==
  op = "optimize" =>
    /\ depth <= Halvings(PyInt(100000))
    /\ pc # "recursion_limit"

\* C2: the Mortgage optimizeTotalHomeValue returns is valid and its cost
\* keeps the three constraints, and so does every best_value a level of the
\* search stores.
C2_ReturnedFeasible ==
  op = "optimize" =>
    /\ ~IsInt0(best_value.value) =>
         /\ isValid(best_value.mortgage)
         /\ best_value.cost = cost(best_value.mortgage)
         /\ Feasible(best_value.cost, loaded)
    /\ pc = "done" =>
         /\ isValid(result)
         /\ Feasible(cost(result), loaded)
    /\ pc = "costed" =>
         /\ isValid(result)
         /\ Feasible(breakdown, loaded)

C2_Witness ==
  /\ op = "optimize"
  /\ pc = "costed"
  /\ depth = Halvings(PyInt(100000))
  /\ result = best_value.mortgage
  /\ isValid(result)

\* C3: the home value returned is the largest feasible one: the mortgage
\* getMortgage derives for one unit more is invalid or breaks a constraint.
C3_NextUnitInfeasible ==
  (op = "optimize" /\ pc = "done" /\ isValid(result)) =>
    \/ ~isValid(getMortgage(financing, FAdd[result.home_value, PyInt(1)], loaded))
    \/ ~Feasible(cost(getMortgage(financing, FAdd[result.home_value, PyInt(1)], loaded)),
                 loaded)

\* the restrictions of the call have no savings, savings below 10000, or
\* neither max_monthly_payment nor max_mortgage
InvalidGiven ==
  \/ ~Has(given, "savings")
  \/ FLt(given.savings, PyInt(10000))
  \/ ~Has(given, "max_monthly_payment") /\ ~Has(given, "max_mortgage")

\* C4: on such restrictions optimizeTotalHomeValue and getMortgage raise a
\* ValueError: no Mortgage is returned, no candidate home value is
\* evaluated, and the caller's restrictions are as they were.
C4_InvalidRaises ==
  (op \in {"optimize", "getMortgage"} /\ InvalidGiven) =>
    /\ pc \in {"call", "raised"}
    /\ pc = "raised" => raised.error = "ValueError"
    /\ result = None
    /\ breakdown = None
    /\ evals = 0
    /\ restrictions = given

C4_Witness ==
  /\ op = "optimize"
  /\ pc = "raised"
  /\ InvalidGiven
  /\ Has(given, "savings")
  /\ ~FLt(given.savings, PyInt(10000))

\* C5: the initial cost of a valid Mortgage from getMortgage is the down
\* payment plus the closing cost on the mortgage size, and is exactly the
\* savings.
C5_InitialCostIsSavings ==
  (op = "getMortgage" /\ pc = "costed" /\ isValid(result)) =>
    /\ breakdown.initial_cost =
         FAdd[FMul[breakdown.mortgage_size, result.financing.closing_cost],
              result.financing.down_payment]
    /\ FEq(breakdown.initial_cost, given.savings)

\* C6: cost() of a Mortgage that is not valid (home value 0 or negative) is
\* the empty dict.
C6_InvalidHasNoCost ==
  (op = "Mortgage" /\ pc = "costed" /\ ~isValid(result)) =>
    breakdown = EmptyDict

\* C7: when the down payment derived for the home value is negative,
\* getMortgage returns the invalid Mortgage of home value 0; no Mortgage it
\* returns carries a negative down payment.
C7_NegativeDownPaymentInvalid ==
  (op = "getMortgage" /\ pc \in {"done", "costed"}) =>
    /\ FLt(DownPayment(home_value, given.savings, loadFinancing(financing).closing_cost),
           PyInt(0)) =>
         /\ IsInt0(result.home_value)
         /\ ~isValid(result)
         /\ pc = "costed" => breakdown = EmptyDict
    /\ Has(result.financing, "down_payment") =>
         ~FLt(result.financing.down_payment, PyInt(0))

C7_Witness ==
  /\ op = "getMortgage"
  /\ pc = "costed"
  /\ FLt(DownPayment(home_value, given.savings, loadFinancing(financing).closing_cost),
         PyInt(0))

\* C8 as stated: for every mortgage size, pmi does not increase as the
\* percentage down increases.
C8_MonotoneForEverySize ==
  (op = "pmi" /\ pc = "done" /\ FLe(pmi_args.lo, pmi_args.hi)) =>
    FGe(pmi_out.lo, pmi_out.hi)

\* C8: for a mortgage size that is not negative, pmi does not increase as the
\* percentage down increases, is 0 from 20% on, and below that is the rate
\* of the first tier reached (0.0044 from 15%, 0.0059 from 10%, 0.0076 from
\* 5%, 0.0098 below) times the mortgage size.
C8_MonotoneForNonNegativeSize ==
  (op = "pmi" /\ pc = "done" /\ FGe(pmi_args.mortgage_size, PyInt(0))) =>
    /\ FLe(pmi_args.lo, pmi_args.hi) => FGe(pmi_out.lo, pmi_out.hi)
    /\ FGe(pmi_args.hi, Dec(2, 10)) => IsInt0(pmi_out.hi)
    /\ (FGe(pmi_args.lo, Dec(15, 100)) /\ FLt(pmi_args.lo, Dec(2, 10))) =>
         pmi_out.lo = FMul[pmi_args.mortgage_size, Dec(44, 10000)]
    /\ (FGe(pmi_args.lo, Dec(1, 10)) /\ FLt(pmi_args.lo, Dec(15, 100))) =>
         pmi_out.lo = FMul[pmi_args.mortgage_size, Dec(59, 10000)]
    /\ (FGe(pmi_args.lo, Dec(5, 100)) /\ FLt(pmi_args.lo, Dec(1, 10))) =>
         pmi_out.lo = FMul[pmi_args.mortgage_size, Dec(76, 10000)]
    /\ FLt(pmi_args.lo, Dec(5, 100)) =>
         pmi_out.lo = FMul[pmi_args.mortgage_size, Dec(98, 10000)]

C8_Witness ==
  /\ op = "pmi"
  /\ pc = "done"
  /\ pmi_args.mortgage_size = PyInt(200000)
  /\ pmi_args.lo = Dec(1, 10)
  /\ pmi_args.hi = Dec(15, 100)
  /\ FGt(pmi_out.lo, pmi_out.hi)

\* C9: the mortgage payment of the breakdown is the payment over the term of
\* the financing in months (360 where the financing gives none), at the
\* monthly rate interest_rate / 12 on the mortgage size.
C9_TermOfFinancing ==
  (op \in {"getMortgage", "Mortgage"} /\ pc = "costed" /\ breakdown # EmptyDict) =>
    breakdown.mortgage_payment =
      FAbs(pmt(FDiv[result.financing.interest_rate, PyInt(12)],
               IF Has(result.financing, "mortgage_term")
               THEN result.financing.mortgage_term ELSE 30 * 12,
               breakdown.mortgage_size))

\* C10: the search that makes one pass of the inner loop per candidate has,
\* after every candidate of every level, the best_value and found_a_match of
\* the search that makes all the passes (and with them its upper bound and
\* the Mortgage it returns).
C10_OnePassSuffices ==
  op = "optimize" => single = [best |-> best_value, found |-> found_a_match]

C10_Witness ==
  /\ op = "optimize"
  /\ pc = "loop"
  /\ depth > 0
  /\ k > 0
  /\ found_a_match
  /\ single.best.value = ArangeAt(lower_bound, upper_bound, step, k - 1)

====
